---- MODULE Spec2Model ----
(***************************************************************************)
(* Model of pg_replicate/src/conversions/numeric.rs: the decoder of        *)
(* PostgreSQL's binary NUMERIC representation (FromSql for PgNumeric) and  *)
(* the converter of the decoded value to an arbitrary-precision decimal    *)
(* (TryFrom<&PgNumeric> for BigDecimal).                                    *)
(*                                                                         *)
(* Arbitrary-precision integers (BigUint) are sequences of decimal digits, *)
(* most significant first, without leading zeros; <<>> is zero.            *)
(***************************************************************************)
EXTENDS Integers, Sequences, FiniteSets, TLC

\* ----------------------------------------------------------------- bounds
\* Largest digit-count header drawn for an input buffer.
MaxCount == 2
\* Largest number of 16-bit words that follow the 8-byte header in an input.
MaxWords == 2

\* ------------------------------------------------------ program constants
SIGN_POSITIVE == 0
SIGN_NEGATIVE == 16384
SIGN_NAN == 49152
\* The factor of one base-10000 digit group, as a count of decimal digits.
GROUP_DECIMALS == 4

\* --------------------------------------------------------- input alphabet
U16 == 65536
I16_MAX == 32767
WeightWords == {0, 1, 65535, 32768}          \* weight 0, 1, -1, -32768
SignWords == {SIGN_POSITIVE, SIGN_NEGATIVE, SIGN_NAN, 32768, 1}
ScaleWords == {0, 2, 4}
DigitWords == {0, 12, 1234, 3400, 10000, 65535}

VARIABLES
    raw,          \* the input buffer: a sequence of bytes
    bytes,        \* the read cursor: how many bytes of raw are consumed
    nreads,       \* number of successful 16-bit reads
    pc,           \* position in from_sql / try_from
    digit_count, weight, sign, scale, digits,   \* locals of from_sql
    numeric,      \* what from_sql returned: a PgNumeric, or None before
    err,          \* the error returned, kind "None" while there is none
    matched,      \* try_from's <<sign, weight, scale, digits>>, bound by its match
    result,       \* the BigUint accumulator of try_from
    pos,          \* how many digits the loop of try_from has consumed
    decimal       \* the BigDecimal returned by try_from, or None

vars == <<raw, bytes, nreads, pc, digit_count, weight, sign, scale, digits,
          numeric, err, matched, result, pos, decimal>>

\* ------------------------------------------------------------ byte reader
\* The two bytes of a 16-bit word, big-endian.
WordBytes(w) == <<w \div 256, w % 256>>

RECURSIVE EncodeWords(_)
EncodeWords(ws) ==
    IF ws = <<>> THEN <<>> ELSE WordBytes(Head(ws)) \o EncodeWords(Tail(ws))

HasRemainingStrict(b, c) == Len(b) - c > 2
\* Whether a 16-bit read at cursor c of buffer b has its two bytes.
HasRemaining(b, c) == Len(b) - c >= 2

AdvanceBy1(c) == c + 1
\* The cursor after a successful 16-bit read.
Advance(c) == c + 2

\* read_u16::<NetworkEndian> at cursor c (only where HasRemaining).
read_u16(b, c) == 256 * b[c + 1] + b[c + 2]

read_i16_unsigned(b, c) == read_u16(b, c)
\* read_i16::<NetworkEndian>: the same two bytes in two's complement.
read_i16(b, c) ==
    IF read_u16(b, c) > I16_MAX THEN read_u16(b, c) - U16 ELSE read_u16(b, c)

\* ---------------------------------------------------------------- values
NoError == [kind |-> "None", value |-> 0]
UnexpectedEof == [kind |-> "UnexpectedEof", value |-> 0]
InvalidNumericSign(v) == [kind |-> "InvalidNumericSign", value |-> v]
NaNUnsupported == [kind |-> "NaNUnsupported", value |-> 0]
TryFromIntError == [kind |-> "TryFromIntError", value |-> 0]

None == [tag |-> "None"]
NaN == [tag |-> "NaN"]
Positive(w, s, d) == [tag |-> "Positive", weight |-> w, scale |-> s, digits |-> d]
Negative(w, s, d) == [tag |-> "Negative", weight |-> w, scale |-> s, digits |-> d]

Ok(v) == [ok |-> TRUE, value |-> v, err |-> NoError]
Err(e) == [ok |-> FALSE, value |-> None, err |-> e]

\* ------------------------------------------------------------ BigUint
RECURSIVE Trim(_)
\* Canonical form: no leading zero digit.
Trim(x) == IF x = <<>> THEN <<>> ELSE IF Head(x) = 0 THEN Trim(Tail(x)) ELSE x

Zeros(n) == [j \in 1..n |-> 0]

\* x with leading zeros up to length n.
PadTo(x, n) == Zeros(n - Len(x)) \o x

Front(x) == SubSeq(x, 1, Len(x) - 1)

Last(x) == x[Len(x)]

BigUintOne == <<1>>
\* BigUint::default()
BigUintDefault == <<>>

RECURSIVE BigUintFrom(_)
\* BigUint::from(n) for a machine integer n >= 0.
BigUintFrom(n) == IF n = 0 THEN <<>> ELSE Append(BigUintFrom(n \div 10), n % 10)

RECURSIVE AddCarry(_, _, _)
\* Schoolbook addition of two digit sequences of the same length.
AddCarry(x, y, carry) ==
    IF x = <<>>
    THEN IF carry = 0 THEN <<>> ELSE <<carry>>
    ELSE LET s == Last(x) + Last(y) + carry
         IN  Append(AddCarry(Front(x), Front(y), s \div 10), s % 10)

\* result += y
BigUintAdd(x, y) ==
    LET n == IF Len(x) > Len(y) THEN Len(x) ELSE Len(y)
    IN  Trim(AddCarry(PadTo(x, n), PadTo(y, n), 0))

\* x * 10^k
MulPow10(x, k) == IF x = <<>> THEN <<>> ELSE x \o Zeros(k)

\* x / 10^k, the quotient of the integer division.
DivPow10(x, k) == IF k >= Len(x) THEN <<>> ELSE SubSeq(x, 1, Len(x) - k)

\* ------------------------------------------------------ BigInt, BigDecimal
\* BigInt::from_biguint(sign, magnitude): zero carries no sign.
from_biguint(sgn, mag) ==
    [sign |-> IF mag = <<>> THEN "NoSign" ELSE sgn, mag |-> mag]

\* BigDecimal::new(int_val, scale): the value int_val * 10^(-scale).
BigDecimalNew(int_val, sc) == [int_val |-> int_val, scale |-> sc]

\* BigDecimal::with_scale(new_scale): a greater scale appends zeros, a smaller
\* one divides the integer by a power of ten, dropping the remainder.
with_scale(d, new_scale) ==
    IF d.int_val.mag = <<>>
    THEN BigDecimalNew(from_biguint("NoSign", <<>>), new_scale)
    ELSE IF new_scale > d.scale
    THEN BigDecimalNew(
             from_biguint(d.int_val.sign, MulPow10(d.int_val.mag, new_scale - d.scale)),
             new_scale)
    ELSE IF new_scale < d.scale
    THEN BigDecimalNew(
             from_biguint(d.int_val.sign, DivPow10(d.int_val.mag, d.scale - new_scale)),
             new_scale)
    ELSE d

\* ------------------------------------------------------------- from_sql
DigitsDoneEarly(i, n) == i + 1 >= n
\* Exit test of `for _ in 0..digit_count`, after i iterations.
DigitsDone(i, n) == i >= n

MatchSignLenient(sgn, w, s, d) ==
    IF sgn = SIGN_POSITIVE THEN Ok(Positive(w, s, d))
    ELSE IF sgn = SIGN_NAN THEN Ok(NaN)
    ELSE Ok(Negative(w, s, d))
\* `match sign { 0 => .., 0x4000 => .., 0xC000 => .., invalid => .. }`
MatchSign(sgn, w, s, d) ==
    IF sgn = SIGN_POSITIVE THEN Ok(Positive(w, s, d))
    ELSE IF sgn = SIGN_NEGATIVE THEN Ok(Negative(w, s, d))
    ELSE IF sgn = SIGN_NAN THEN Ok(NaN)
    ELSE Err(InvalidNumericSign(sgn))

RECURSIVE ReadDigits(_, _, _, _)
\* The digit loop from cursor c with the digits ds read so far: the digits,
\* or an end-of-buffer failure.
ReadDigits(b, c, ds, n) ==
    IF DigitsDone(Len(ds), n) THEN Ok(ds)
    ELSE IF ~HasRemaining(b, c) THEN Err(UnexpectedEof)
    ELSE ReadDigits(b, Advance(c), Append(ds, read_i16(b, c)), n)

\* from_sql as a function of the buffer.
from_sql(b) ==
    IF ~HasRemaining(b, 0) THEN Err(UnexpectedEof)
    ELSE IF ~HasRemaining(b, Advance(0)) THEN Err(UnexpectedEof)
    ELSE IF ~HasRemaining(b, Advance(Advance(0))) THEN Err(UnexpectedEof)
    ELSE IF ~HasRemaining(b, Advance(Advance(Advance(0)))) THEN Err(UnexpectedEof)
    ELSE LET n  == read_u16(b, 0)
             w  == read_i16(b, Advance(0))
             sg == read_u16(b, Advance(Advance(0)))
             sc == read_u16(b, Advance(Advance(Advance(0))))
             ds == ReadDigits(b, Advance(Advance(Advance(Advance(0)))), <<>>, n)
         IN  IF ds.ok THEN MatchSign(sg, w, sc, ds.value) ELSE ds

\* ------------------------------------------------------------- try_from
NaNAsZero(n) ==
    IF n.tag = "Negative" THEN Ok(<<"Minus", n.weight, n.scale, n.digits>>)
    ELSE IF n.tag = "Positive" THEN Ok(<<"Plus", n.weight, n.scale, n.digits>>)
    ELSE Ok(<<"Plus", 0, 0, <<>> >>)
\* `let (sign, weight, scale, digits) = match *numeric { .. }`
TryFromMatch(n) ==
    IF n.tag = "Positive" THEN Ok(<<"Plus", n.weight, n.scale, n.digits>>)
    ELSE IF n.tag = "Negative" THEN Ok(<<"Minus", n.weight, n.scale, n.digits>>)
    ELSE Err(NaNUnsupported)

\* One iteration of `for digit in digits`: the new accumulator, or the
\* failure of u64::try_from on a negative digit.
AccumulateDigit(acc, digit) ==
    IF digit < 0 THEN Err(TryFromIntError)
    ELSE Ok(BigUintAdd(MulPow10(acc, GROUP_DECIMALS), BigUintFrom(digit)))

\* 4 * (weight - count + 1)
CorrectionExp(w, count) == GROUP_DECIMALS * (w - count + 1)

\* The BigDecimal built after the loop.
Finish(sgn, acc, w, sc, count) ==
    with_scale(BigDecimalNew(from_biguint(sgn, acc), -CorrectionExp(w, count)), sc)

RECURSIVE Accumulate(_, _)
Accumulate(acc, ds) ==
    IF ds = <<>> THEN Ok(acc)
    ELSE LET r == AccumulateDigit(acc, Head(ds))
         IN  IF r.ok THEN Accumulate(r.value, Tail(ds)) ELSE r

\* try_from as a function of the PgNumeric.
try_from(n) ==
    LET m == TryFromMatch(n)
    IN  IF ~m.ok THEN m
        ELSE LET acc == Accumulate(BigUintDefault, m.value[4])
             IN  IF ~acc.ok THEN acc
                 ELSE Ok(Finish(m.value[1], acc.value, m.value[2], m.value[3],
                                Len(m.value[4])))

\* ---------------------------------------------------------------- inputs
\* The buffers handed to from_sql: a header of four words and up to MaxWords
\* further words, cut at any byte.
InputBuffers ==
    { SubSeq(EncodeWords(<<n, w, sg, sc>> \o payload), 1, len) :
        <<n, w, sg, sc, payload, len>> \in
            { t \in (0..MaxCount) \X WeightWords \X SignWords \X ScaleWords
                    \X (UNION { [1..k -> DigitWords] : k \in 0..MaxWords })
                    \X (0..(8 + 2 * MaxWords)) :
                t[6] <= 8 + 2 * Len(t[5]) } }

Init ==
    /\ raw \in InputBuffers
    /\ bytes = 0
    /\ nreads = 0
    /\ pc = "read_digit_count"
    /\ digit_count = 0
    /\ weight = 0
    /\ sign = 0
    /\ scale = 0
    /\ digits = <<>>
    /\ numeric = None
    /\ err = NoError
    /\ matched = <<"Plus", 0, 0, <<>> >>
    /\ result = BigUintDefault
    /\ pos = 0
    /\ decimal = None

\* ---------------------------------------------------------------- actions
\* A 16-bit read with fewer than two bytes left: `?` returns the error.  The
\* reader either keeps its cursor or is left at the end of the buffer.
ReadFails ==
    /\ ~HasRemaining(raw, bytes)
    /\ err' = UnexpectedEof
    /\ pc' = "done"
    /\ bytes' \in {bytes, Len(raw)}
    /\ UNCHANGED <<raw, nreads, digit_count, weight, sign, scale, digits,
                   numeric, matched, result, pos, decimal>>

\* A 16-bit read with its two bytes present.
ReadSucceeds(next) ==
    /\ HasRemaining(raw, bytes)
    /\ bytes' = Advance(bytes)
    /\ nreads' = nreads + 1
    /\ pc' = next
    /\ UNCHANGED <<raw, numeric, err, matched, result, pos, decimal>>

\* let digit_count = bytes.read_u16()?; let mut digits = Vec::with_capacity(..)
ReadDigitCount ==
    /\ pc = "read_digit_count"
    /\ \/ /\ ReadSucceeds("read_weight")
          /\ digit_count' = read_u16(raw, bytes)
          /\ digits' = <<>>
          /\ UNCHANGED <<weight, sign, scale>>
       \/ ReadFails

\* let weight = bytes.read_i16()?
ReadWeight ==
    /\ pc = "read_weight"
    /\ \/ /\ ReadSucceeds("read_sign")
          /\ weight' = read_i16(raw, bytes)
          /\ UNCHANGED <<digit_count, sign, scale, digits>>
       \/ ReadFails

\* let sign = bytes.read_u16()?
ReadSign ==
    /\ pc = "read_sign"
    /\ \/ /\ ReadSucceeds("read_scale")
          /\ sign' = read_u16(raw, bytes)
          /\ UNCHANGED <<digit_count, weight, scale, digits>>
       \/ ReadFails

\* let scale = bytes.read_u16()?
ReadScale ==
    /\ pc = "read_scale"
    /\ \/ /\ ReadSucceeds("read_digits")
          /\ scale' = read_u16(raw, bytes)
          /\ UNCHANGED <<digit_count, weight, sign, digits>>
       \/ ReadFails

\* One iteration of the digit loop: digits.push(bytes.read_i16()?)
ReadDigit ==
    /\ pc = "read_digits"
    /\ ~DigitsDone(Len(digits), digit_count)
    /\ \/ /\ ReadSucceeds("read_digits")
          /\ digits' = Append(digits, read_i16(raw, bytes))
          /\ UNCHANGED <<digit_count, weight, sign, scale>>
       \/ ReadFails

\* The loop is over: from_sql returns what the match on sign gives.
ReturnFromSql ==
    /\ pc = "read_digits"
    /\ DigitsDone(Len(digits), digit_count)
    /\ LET r == MatchSign(sign, weight, scale, digits)
       IN  /\ numeric' = r.value
           /\ err' = r.err
           /\ pc' = IF r.ok THEN "try_from" ELSE "done"
    /\ UNCHANGED <<raw, bytes, nreads, digit_count, weight, sign, scale, digits,
                   matched, result, pos, decimal>>

\* try_from is entered with the decoded value: the match, then
\* `let mut result = BigUint::default()`.
TryFromEnter ==
    /\ pc = "try_from"
    /\ LET m == TryFromMatch(numeric)
       IN  /\ err' = m.err
           /\ matched' = IF m.ok THEN m.value ELSE matched
           /\ pc' = IF m.ok THEN "accumulate" ELSE "done"
    /\ result' = BigUintDefault
    /\ pos' = 0
    /\ UNCHANGED <<raw, bytes, nreads, digit_count, weight, sign, scale, digits,
                   numeric, decimal>>

\* One iteration of `for digit in digits`.
AccumulateStep ==
    /\ pc = "accumulate"
    /\ pos < Len(matched[4])
    /\ LET r == AccumulateDigit(result, matched[4][pos + 1])
       IN  /\ err' = r.err
           /\ result' = IF r.ok THEN r.value ELSE result
           /\ pc' = IF r.ok THEN "accumulate" ELSE "done"
    /\ pos' = pos + 1
    /\ UNCHANGED <<raw, bytes, nreads, digit_count, weight, sign, scale, digits,
                   numeric, matched, decimal>>

\* After the loop: the correction exponent, BigDecimal::new, with_scale.
TryFromReturn ==
    /\ pc = "accumulate"
    /\ pos = Len(matched[4])
    /\ decimal' = Finish(matched[1], result, matched[2], matched[3], Len(matched[4]))
    /\ pc' = "done"
    /\ UNCHANGED <<raw, bytes, nreads, digit_count, weight, sign, scale, digits,
                   numeric, err, matched, result, pos>>

Next ==
    \/ ReadDigitCount
    \/ ReadWeight
    \/ ReadSign
    \/ ReadScale
    \/ ReadDigit
    \/ ReturnFromSql
    \/ TryFromEnter
    \/ AccumulateStep
    \/ TryFromReturn

Spec == Init /\ [][Next]_vars

\* ------------------------------------------------- vocabulary of the claims
\* The unsigned 16-bit big-endian value at byte offset off of buffer b.
WordAt(b, off) == 256 * b[off + 1] + b[off + 2]

\* The two's-complement reading of a 16-bit value.
Signed16(u) == IF u >= 32768 THEN u - 65536 ELSE u

\* The buffer holds its header and every digit group its header declares.
Framed(b) == Len(b) >= 8 /\ Len(b) >= 8 + 2 * WordAt(b, 0)

\* from_sql has returned.
Returned == pc \in {"try_from", "accumulate"} \/ (pc = "done")

\* from_sql has returned a value.
Decoded == numeric.tag # "None"

ValidDigits(ds) == \A j \in 1..Len(ds) : ds[j] \in 0..9999

HasDecimal == "int_val" \in DOMAIN decimal

\* try_from has returned a decimal.
Converted == pc = "done" /\ err.kind = "None" /\ HasDecimal

RECURSIVE StripZeros(_, _)
\* The value mant * 10^exp, with the trailing zeros of mant moved into exp.
StripZeros(mant, exp) ==
    IF mant = <<>> THEN [mant |-> <<>>, exp |-> 0]
    ELSE IF Last(mant) = 0 THEN StripZeros(Front(mant), exp + 1)
    ELSE [mant |-> mant, exp |-> exp]

\* The exact value of a BigDecimal: sign, and magnitude in normal form.
DecValue(d) ==
    [sign |-> d.int_val.sign, mag |-> StripZeros(d.int_val.mag, -d.scale)]

\* The four decimal digits of a group in 0..9999.
Group4(g) == <<g \div 1000, (g \div 100) % 10, (g \div 10) % 10, g % 10>>

RECURSIVE Groups(_)
Groups(ds) == IF ds = <<>> THEN <<>> ELSE Group4(Head(ds)) \o Groups(Tail(ds))

\* sign * (sum of d[i] * 10000^(count-1-i)) * 10^(4 * (weight - count + 1))
ExactValue(n) ==
    LET mant == Trim(Groups(n.digits))
    IN  [sign |-> IF mant = <<>> THEN "NoSign"
                  ELSE IF n.tag = "Negative" THEN "Minus" ELSE "Plus",
         mag |-> StripZeros(mant, 4 * (n.weight - Len(n.digits) + 1))]

\* ------------------------------------------------------------------ claims

\* C1: two Positive (or two Negative) values with the same weight and digits
\* (all in 0..9999) that differ only in scale convert to the same exact
\* value, and the result reports the scale it was given.
C1_ScaleIndependence ==
    (Converted /\ ValidDigits(numeric.digits)) =>
        \A s \in ScaleWords :
            LET r == try_from([numeric EXCEPT !.scale = s])
            IN  /\ r.ok
                /\ r.value.scale = s
                /\ DecValue(r.value) = DecValue(decimal)

\* C2: converting a Positive or Negative value with digits in 0..9999
\* succeeds and gives exactly
\* sign * (sum of d[i] * 10000^(count-1-i)) * 10^(4 * (weight - count + 1)).
C2_ExactValue ==
    (pc = "done" /\ numeric.tag \in {"Positive", "Negative"}
                 /\ ValidDigits(numeric.digits)) =>
        /\ Converted
        /\ DecValue(decimal) = ExactValue(numeric)

\* C3: a Positive or Negative value returned by the decoder has as many
\* digits as the digit-count header says, each of them in 0..9999.
C3_DecodedDigitsValid ==
    numeric.tag \in {"Positive", "Negative"} =>
        /\ Len(numeric.digits) = WordAt(raw, 0)
        /\ ValidDigits(numeric.digits)

\* C4 as stated: a buffer with a complete header whose sign field is none of 0, 0x4000, 0xC000
\* always fails with the invalid-sign error carrying the raw sign value,
\* whatever the rest of the buffer is.
C4_InvalidSignAnyBuffer ==
    (Len(raw) >= 8 /\ WordAt(raw, 4) \notin {SIGN_POSITIVE, SIGN_NEGATIVE, SIGN_NAN}
                   /\ pc = "done") =>
        err = InvalidNumericSign(WordAt(raw, 4))

\* C4 amended: a completely framed buffer whose sign field is none of 0,
\* 0x4000, 0xC000 never decodes to a value and fails with the invalid-sign
\* error carrying the raw sign value.
C4_InvalidSignFramed ==
    (Framed(raw) /\ WordAt(raw, 4) \notin {SIGN_POSITIVE, SIGN_NEGATIVE, SIGN_NAN}) =>
        /\ ~Decoded
        /\ pc \notin {"try_from", "accumulate"}
        /\ pc = "done" => err = InvalidNumericSign(WordAt(raw, 4))

C4_Witness ==
    /\ pc = "done"
    /\ Framed(raw)
    /\ WordAt(raw, 0) > 0
    /\ WordAt(raw, 4) = 32768
    /\ err = InvalidNumericSign(32768)

\* C5 as stated: any input with a complete header whose sign field is
\* 0xC000, whatever its other fields and bytes, ends decode-then-convert in the unsupported-NaN failure.
C5_NaNAnyBuffer ==
    (Len(raw) >= 8 /\ WordAt(raw, 4) = SIGN_NAN /\ pc = "done") =>
        /\ err = NaNUnsupported
        /\ ~HasDecimal

\* C5 amended: a completely framed input whose sign field is 0xC000 ends
\* decode-then-convert in the unsupported-NaN failure and never in a decimal
\* or another error.
C5_NaNFramed ==
    (Framed(raw) /\ WordAt(raw, 4) = SIGN_NAN) =>
        /\ ~HasDecimal
        /\ err.kind \in {"None", "NaNUnsupported"}
        /\ pc = "done" => err = NaNUnsupported

C5_Witness ==
    /\ pc = "done"
    /\ Framed(raw)
    /\ WordAt(raw, 0) > 0
    /\ WordAt(raw, 4) = SIGN_NAN
    /\ numeric = NaN
    /\ err = NaNUnsupported

\* C6: a buffer of fewer than 8 bytes, or one whose digit-count header n has
\* 8 + 2n > length, fails with the end-of-buffer error and never yields a
\* Positive, Negative or NaN value.
C6_ShortBufferFails ==
    (Len(raw) < 8 \/ 8 + 2 * WordAt(raw, 0) > Len(raw)) =>
        /\ ~Decoded
        /\ pc \notin {"try_from", "accumulate"}
        /\ err.kind \in {"None", "UnexpectedEof"}
        /\ pc = "done" => err = UnexpectedEof

C6_Witness ==
    /\ pc = "done"
    /\ Len(raw) >= 8
    /\ 8 + 2 * WordAt(raw, 0) > Len(raw)
    /\ Len(digits) > 0
    /\ err = UnexpectedEof

\* C7: for a completely framed buffer the decoder returns Positive for sign
\* 0, Negative for 0x4000 and NaN for 0xC000; weight is the signed 16-bit
\* value at offset 2, scale the unsigned one at offset 6, and digits[i] the
\* 16-bit group at offset 8 + 2i, for every i below the digit count.
C7_DecodedFields ==
    (Framed(raw) /\ Returned
        /\ WordAt(raw, 4) \in {SIGN_POSITIVE, SIGN_NEGATIVE, SIGN_NAN}) =>
        /\ numeric.tag = IF WordAt(raw, 4) = SIGN_POSITIVE THEN "Positive"
                         ELSE IF WordAt(raw, 4) = SIGN_NEGATIVE THEN "Negative"
                         ELSE "NaN"
        /\ numeric.tag = "NaN" => numeric = NaN
        /\ numeric.tag # "NaN" =>
            /\ numeric.weight = Signed16(WordAt(raw, 2))
            /\ numeric.scale = WordAt(raw, 6)
            /\ Len(numeric.digits) = WordAt(raw, 0)
            /\ \A j \in 1..Len(numeric.digits) :
                /\ numeric.digits[j] \in -32768..32767
                /\ numeric.digits[j] % 65536 = WordAt(raw, 8 + 2 * (j - 1))

C7_Witness ==
    /\ Returned
    /\ Framed(raw)
    /\ numeric.tag = "Negative"
    /\ numeric.weight = -1
    /\ numeric.scale = 2
    /\ numeric.digits = <<12, 3400>>

\* C8: a Positive or Negative value with no digits converts, without
\* failing, to a decimal equal to zero, whatever its weight and scale.
C8_EmptyDigitsZero ==
    (numeric.tag \in {"Positive", "Negative"} /\ numeric.digits = <<>>) =>
        /\ err.kind = "None"
        /\ pc = "accumulate" => result = <<>>
        /\ pc = "done" => (HasDecimal /\ decimal.int_val.mag = <<>>)

C8_Witness ==
    /\ Converted
    /\ numeric.tag = "Negative"
    /\ numeric.digits = <<>>
    /\ numeric.weight = -32768
    /\ numeric.scale = 4
    /\ decimal.int_val.mag = <<>>

\* The digit-count header of the buffer, 0 while it has none.
HeaderCount == IF Len(raw) >= 2 THEN WordAt(raw, 0) ELSE 0

\* An upper bound of the number of steps left before the return.
Rank ==
    IF pc = "done" THEN 0
    ELSE IF pc = "accumulate" THEN HeaderCount - pos + 1
    ELSE IF pc = "try_from" THEN HeaderCount + 2
    ELSE (4 + HeaderCount - nreads) + HeaderCount + 3

\* Some step of from_sql or try_from can be taken: a read (which succeeds or
\* fails), the return of from_sql, or a step of try_from.
CanStep ==
    \/ pc \in {"read_digit_count", "read_weight", "read_sign", "read_scale"}
    \/ pc = "read_digits" /\ Len(digits) <= digit_count
    \/ pc = "try_from" /\ Decoded
    \/ pc = "accumulate" /\ pos <= Len(matched[4])

\* C9: the cursor starts at 0, every successful 16-bit read advances it by
\* exactly 2, it never exceeds the length of the buffer (a read with fewer
\* than 2 bytes left fails with end-of-buffer), a decode makes at most
\* 4 + digit-count reads, and decode followed by convert always ends with a
\* decimal or an error: before the end a step is always possible, and every
\* step lowers a bound of the steps left.
C9_CursorSafeAndTerminates ==
    /\ [](/\ bytes \in 0..Len(raw)
          /\ nreads <= 4 + HeaderCount
          /\ bytes # 2 * nreads => err = UnexpectedEof
          /\ Rank \in Nat
          /\ pc = "done" \/ CanStep
          /\ pc \in {"read_digit_count", "read_weight", "read_sign", "read_scale",
                     "read_digits", "try_from", "accumulate", "done"}
          /\ pc = "done" => (err.kind = "None") = HasDecimal)
    /\ [][/\ nreads' \in {nreads, nreads + 1}
          /\ nreads' = nreads + 1 => (bytes' = bytes + 2 /\ bytes' <= Len(raw))
          /\ (nreads' = nreads /\ bytes' # bytes) =>
                (Len(raw) - bytes < 2 /\ err' = UnexpectedEof)
          /\ Rank' < Rank]_vars

C9_Witness ==
    /\ pc = "done"
    /\ Len(raw) = 11
    /\ nreads = 5
    /\ bytes = 10
    /\ digit_count = 2
    /\ err = UnexpectedEof

\* What from_sql returned, once it has.
DecodeResult ==
    IF err.kind \in {"UnexpectedEof", "InvalidNumericSign"} THEN Err(err)
    ELSE Ok(numeric)

\* C10: for a buffer of at least 8 + 2n bytes, n its digit-count header,
\* the decoder returns what it returns for the first 8 + 2n bytes alone:
\* bytes after the last digit group are never inspected and cause no error.
C10_TrailingBytesIgnored ==
    (Framed(raw) /\ Returned) =>
        DecodeResult = from_sql(SubSeq(raw, 1, 8 + 2 * WordAt(raw, 0)))

C10_Witness ==
    /\ Returned
    /\ Framed(raw)
    /\ WordAt(raw, 0) = 1
    /\ Len(raw) = 8 + 2 * WordAt(raw, 0) + 2
    /\ numeric.tag = "Positive"
    /\ numeric.digits = <<1234>>

====
